---- MODULE Spec2Model ----
(***************************************************************************)
(* Multi-proposer election of the chained BFT consensus                    *)
(* (consensus/src/chained_bft/liveness/multi_proposer_election.rs).        *)
(*                                                                         *)
(* A MultiProposer maps a round to an ordered list of authors by a chain   *)
(* of hashes and keeps the best backup (non-primary) proposal of the       *)
(* highest round.  Rust's Option<T> is modelled as a sequence of length    *)
(* at most one: None is <<>> and Some(x) is <<x>>.                         *)
(***************************************************************************)
EXTENDS Integers, Sequences, FiniteSets, TLC

\* Bounds of the model.
MaxU64 == 2        \* Round and hash values (u64) range over 0..MaxU64
NumAuthors == 3    \* authors are 1..NumAuthors

\* std::usize::MAX, cut to the largest integer TLC represents.
usize_MAX == 2147483647

None == <<>>
Some(x) == <<x>>

U64 == 0..MaxU64
Round == U64
Author == 1..NumAuthors

\* Block<T>: only round() and author() are inspected; the payload of type T
\* tells two blocks of one author and round apart.
Payload == {"x", "y"}
Block == [round : Round, author : {None} \cup {Some(a) : a \in Author},
          payload : Payload]

\* The proposer lists handed to new(): authors are opaque and compared by
\* equality only, so a list without duplicates is <<1, .., n>> up to renaming.
\* The lists with a duplicate show what the selection does without the
\* configuration's invariant.
DistinctLists == {[i \in 1..n |-> i] : n \in 0..NumAuthors}
ProposerLists == DistinctLists \cup {<<1, 1>>, <<1, 2, 1>>}

\* The requested num_proposers_per_round handed to new().
Requested == 0..(NumAuthors + 1)

\* The deterministic 64-bit hashes the model ranges over.  SipHash 2-4 is one
\* fixed function of u64; the selection is checked for every function of the
\* bounded domain, the state machine for the affine ones v -> a*v + c with
\* a of 1 or 2.
AllHashFns == [U64 -> U64]
HashFns == {[v \in U64 |-> (a * v + c) % (MaxU64 + 1)] : a \in {1, 2}, c \in U64}

VARIABLES
    hashFn,                   \* the hash function, fixed for a behaviour
    status,                   \* "init" | "ready" | "panicked"
    proposers,                \* MultiProposer.proposers
    num_proposers_per_round,  \* MultiProposer.num_proposers_per_round
    backup_proposal_round,    \* MultiProposer.backup_proposal_round
    backup_proposal,          \* MultiProposer.backup_proposal: Option<(rank, block)>
    requested,                \* history: the count new() was called with
    call,                     \* history: the last call and its arguments
    ret,                      \* history: what the last call returned
    run,                      \* history: the current run of process_proposal calls
    seen_round                \* history: the highest round of a backup-rank
                              \* proposal processed so far, 0 if none

vars == <<hashFn, status, proposers, num_proposers_per_round,
          backup_proposal_round, backup_proposal, requested, call, ret, run,
          seen_round>>

Min(a, b) == IF a <= b THEN a ELSE b

NoDuplicates(s) == \A i, j \in 1..Len(s) : s[i] = s[j] => i = j

Contains(s, x) == \E i \in 1..Len(s) : s[i] = x

\* The instance as one value.
Self == [proposers |-> proposers,
         num_proposers_per_round |-> num_proposers_per_round,
         backup_proposal_round |-> backup_proposal_round,
         backup_proposal |-> backup_proposal]

-----------------------------------------------------------------------------
(* The candidate selection *)

hash(val) == hashFn[val]

\* A removal that drops the last element and leaves the chosen one in the pool.
swap_remove_pop(v, idx) == [i \in 1..(Len(v) - 1) |-> v[i]]

\* A removal that keeps the order of the remaining elements (Vec::remove).
swap_remove_shift(v, idx) ==
    [i \in 1..(Len(v) - 1) |-> IF i < idx + 1 THEN v[i] ELSE v[i + 1]]

\* No removal at all: the chosen element is copied and the pool stays whole.
swap_remove_none(v, idx) == v

\* Vec::swap_remove(idx): the element at idx is replaced by the last one and
\* the vector shrinks by one.  idx is 0-based.
swap_remove(v, idx) ==
    [i \in 1..(Len(v) - 1) |-> IF i = idx + 1 THEN v[Len(v)] ELSE v[i]]

\* The loop of get_candidates: n iterations are left.  The result is
\* [panic |-> TRUE] when the remainder by an empty pool's length is taken.
RECURSIVE get_candidates_loop(_, _, _, _)
get_candidates_loop(res, candidates, cur_val, n) ==
    IF n = 0 THEN [panic |-> FALSE, val |-> res]
    ELSE IF Len(candidates) = 0 THEN [panic |-> TRUE, val |-> res]
    ELSE LET h == hash(cur_val)
             idx == h % Len(candidates)
         IN get_candidates_loop(Append(res, candidates[idx + 1]),
                                swap_remove(candidates, idx), h, n - 1)

\* A selection whose chain starts from the retained round, not the argument.
get_candidates_of_state(self, round) ==
    get_candidates_loop(<<>>, self.proposers,
                        (round + self.backup_proposal_round) % (MaxU64 + 1),
                        self.num_proposers_per_round)

get_candidates(self, round) ==
    get_candidates_loop(<<>>, self.proposers, round, self.num_proposers_per_round)

-----------------------------------------------------------------------------
(* The operations, as functions of the instance *)

\* A constructor that does not adjust the count to the number of proposers.
new_unclamped(props, num) ==
    IF ~(num > 0) \/ ~(num <= Len(props)) THEN [panic |-> TRUE]
    ELSE [panic |-> FALSE,
          self |-> [proposers |-> props,
                    num_proposers_per_round |-> num,
                    backup_proposal_round |-> 0,
                    backup_proposal |-> None]]

\* A constructor without the adjustment of the count and without the
\* assertion after it.
new_unchecked(props, num) ==
    IF ~(num > 0) THEN [panic |-> TRUE]
    ELSE [panic |-> FALSE,
          self |-> [proposers |-> props,
                    num_proposers_per_round |-> num,
                    backup_proposal_round |-> 0,
                    backup_proposal |-> None]]

\* MultiProposer::new: the instance, or a panic of one of the assertions.
new(props, num) ==
    IF ~(num > 0) THEN [panic |-> TRUE]
    ELSE LET n == IF num > Len(props) THEN Len(props) ELSE num
         IN IF ~(n <= Len(props)) THEN [panic |-> TRUE]
            ELSE [panic |-> FALSE,
                  self |-> [proposers |-> props,
                            num_proposers_per_round |-> n,
                            backup_proposal_round |-> 0,
                            backup_proposal |-> None]]

\* An admission check that looks at the primary candidate only.
is_valid_proposer_primary_only(self, author, round) ==
    LET c == get_candidates(self, round)
    IN IF c.panic THEN [panic |-> TRUE, self |-> self, ret |-> None]
       ELSE [panic |-> FALSE, self |-> self,
             ret |-> IF Len(c.val) > 0 /\ c.val[1] = author
                     THEN Some(author) ELSE None]

is_valid_proposer(self, author, round) ==
    LET c == get_candidates(self, round)
    IN IF c.panic THEN [panic |-> TRUE, self |-> self, ret |-> None]
       ELSE [panic |-> FALSE, self |-> self,
             ret |-> IF Contains(c.val, author) THEN Some(author) ELSE None]

get_valid_proposers(self, round) ==
    LET c == get_candidates(self, round)
    IN [panic |-> c.panic, self |-> self, ret |-> c.val]

\* A search that answers the length of the list for an author it does not hold.
rank_of_or_len(candidates, author) ==
    IF Contains(candidates, author)
    THEN Some((CHOOSE i \in 1..Len(candidates) :
                 /\ candidates[i] = author
                 /\ \A j \in 1..(i - 1) : candidates[j] # author) - 1)
    ELSE Some(Len(candidates))

\* The least rank at which the author is a candidate, None if at none: the
\* loop of process_proposal returns at the first candidate that matches.
rank_of(candidates, author) ==
    IF Contains(candidates, author)
    THEN Some((CHOOSE i \in 1..Len(candidates) :
                 /\ candidates[i] = author
                 /\ \A j \in 1..(i - 1) : candidates[j] # author) - 1)
    ELSE None

\* A backup branch that replaces the retained backup of the same round
\* whatever its rank.
record_backup_last_wins(self, rank, proposal) ==
    IF proposal.round > self.backup_proposal_round
    THEN [self EXCEPT !.backup_proposal = Some([rank |-> rank, block |-> proposal]),
                      !.backup_proposal_round = proposal.round]
    ELSE IF proposal.round = self.backup_proposal_round
    THEN [self EXCEPT !.backup_proposal = Some([rank |-> rank, block |-> proposal])]
    ELSE self

\* A backup branch that compares ranks across rounds: a newer round replaces
\* the retained backup only with a better rank.
record_backup_by_rank(self, rank, proposal) ==
    LET current_rank == IF self.backup_proposal = None THEN usize_MAX
                        ELSE self.backup_proposal[1].rank
    IN IF proposal.round >= self.backup_proposal_round /\ rank < current_rank
       THEN [self EXCEPT !.backup_proposal = Some([rank |-> rank, block |-> proposal]),
                         !.backup_proposal_round = proposal.round]
       ELSE self

\* A backup branch that takes a proposal of any other round than the
\* retained one, an older round too.
record_backup_any_round(self, rank, proposal) ==
    LET current_rank == IF self.backup_proposal = None THEN usize_MAX
                        ELSE self.backup_proposal[1].rank
    IN IF proposal.round # self.backup_proposal_round
       THEN [self EXCEPT !.backup_proposal = Some([rank |-> rank, block |-> proposal]),
                         !.backup_proposal_round = proposal.round]
       ELSE IF rank < current_rank
       THEN [self EXCEPT !.backup_proposal = Some([rank |-> rank, block |-> proposal])]
       ELSE self

\* A backup branch that replaces the retained backup on a tie of ranks too
\* (rank <= current_rank).
record_backup_tie_replaces(self, rank, proposal) ==
    IF proposal.round > self.backup_proposal_round
    THEN [self EXCEPT !.backup_proposal = Some([rank |-> rank, block |-> proposal]),
                      !.backup_proposal_round = proposal.round]
    ELSE IF proposal.round = self.backup_proposal_round
    THEN LET current_rank == IF self.backup_proposal = None THEN usize_MAX
                             ELSE self.backup_proposal[1].rank
         IN IF rank <= current_rank
            THEN [self EXCEPT !.backup_proposal =
                                  Some([rank |-> rank, block |-> proposal])]
            ELSE self
    ELSE self

\* A backup branch that does not move the retained round to a newer round.
record_backup_keep_round(self, rank, proposal) ==
    IF proposal.round > self.backup_proposal_round
    THEN [self EXCEPT !.backup_proposal = Some([rank |-> rank, block |-> proposal])]
    ELSE IF proposal.round = self.backup_proposal_round
    THEN LET current_rank == IF self.backup_proposal = None THEN usize_MAX
                             ELSE self.backup_proposal[1].rank
         IN IF rank < current_rank
            THEN [self EXCEPT !.backup_proposal =
                                  Some([rank |-> rank, block |-> proposal])]
            ELSE self
    ELSE self

\* A backup branch that reads an empty slot as rank 0 (map_or(0, ..)): no
\* proposal of the retained round beats it.
record_backup_empty_is_best(self, rank, proposal) ==
    IF proposal.round > self.backup_proposal_round
    THEN [self EXCEPT !.backup_proposal = Some([rank |-> rank, block |-> proposal]),
                      !.backup_proposal_round = proposal.round]
    ELSE IF proposal.round = self.backup_proposal_round
    THEN LET current_rank == IF self.backup_proposal = None THEN 0
                             ELSE self.backup_proposal[1].rank
         IN IF rank < current_rank
            THEN [self EXCEPT !.backup_proposal =
                                  Some([rank |-> rank, block |-> proposal])]
            ELSE self
    ELSE self

\* The backup branch of process_proposal (lines 112-124).
record_backup(self, rank, proposal) ==
    IF proposal.round > self.backup_proposal_round
    THEN [self EXCEPT !.backup_proposal = Some([rank |-> rank, block |-> proposal]),
                      !.backup_proposal_round = proposal.round]
    ELSE IF proposal.round = self.backup_proposal_round
    THEN LET current_rank == IF self.backup_proposal = None THEN usize_MAX
                             ELSE self.backup_proposal[1].rank
         IN IF rank < current_rank
            THEN [self EXCEPT !.backup_proposal =
                                  Some([rank |-> rank, block |-> proposal])]
            ELSE self
    ELSE self

\* A classification without the rank == 0 test: the primary proposal is
\* recorded like a backup.
process_proposal_no_primary(self, proposal) ==
    IF proposal.author = None THEN [panic |-> FALSE, self |-> self, ret |-> None]
    ELSE LET author == proposal.author[1]
             c == get_candidates(self, proposal.round)
             rank == rank_of(c.val, author)
         IN IF c.panic THEN [panic |-> TRUE, self |-> self, ret |-> None]
            ELSE IF rank = None THEN [panic |-> FALSE, self |-> self, ret |-> None]
            ELSE [panic |-> FALSE, self |-> record_backup(self, rank[1], proposal),
                  ret |-> IF rank[1] = 0 THEN Some(proposal) ELSE None]

\* A classification that hands every candidate's proposal back to the caller,
\* and records the backup-rank ones as well.
process_proposal_any_rank(self, proposal) ==
    IF proposal.author = None THEN [panic |-> FALSE, self |-> self, ret |-> None]
    ELSE LET author == proposal.author[1]
             c == get_candidates(self, proposal.round)
             rank == rank_of(c.val, author)
         IN IF c.panic THEN [panic |-> TRUE, self |-> self, ret |-> None]
            ELSE IF rank = None THEN [panic |-> FALSE, self |-> self, ret |-> None]
            ELSE IF rank[1] = 0
            THEN [panic |-> FALSE, self |-> self, ret |-> Some(proposal)]
            ELSE [panic |-> FALSE, self |-> record_backup(self, rank[1], proposal),
                  ret |-> Some(proposal)]

process_proposal(self, proposal) ==
    IF proposal.author = None THEN [panic |-> FALSE, self |-> self, ret |-> None]
    ELSE LET author == proposal.author[1]
             c == get_candidates(self, proposal.round)
             rank == rank_of(c.val, author)
         IN IF c.panic THEN [panic |-> TRUE, self |-> self, ret |-> None]
            ELSE IF rank = None THEN [panic |-> FALSE, self |-> self, ret |-> None]
            ELSE IF rank[1] = 0
            THEN [panic |-> FALSE, self |-> self, ret |-> Some(proposal)]
            ELSE [panic |-> FALSE, self |-> record_backup(self, rank[1], proposal),
                  ret |-> None]

\* A take that hands out the retained block and leaves it in the slot.
take_backup_proposal_keep(self, round) ==
    IF self.backup_proposal_round # round
    THEN [panic |-> FALSE, self |-> self, ret |-> None]
    ELSE IF self.backup_proposal # None
    THEN [panic |-> FALSE, self |-> self,
          ret |-> Some(self.backup_proposal[1].block)]
    ELSE [panic |-> FALSE, self |-> self, ret |-> None]

\* A take that does not compare the round with the retained one.
take_backup_proposal_any_round(self, round) ==
    IF self.backup_proposal # None
    THEN [panic |-> FALSE, self |-> [self EXCEPT !.backup_proposal = None],
          ret |-> Some(self.backup_proposal[1].block)]
    ELSE [panic |-> FALSE, self |-> self, ret |-> None]

\* A take that forgets the retained round along with the block.
take_backup_proposal_reset(self, round) ==
    IF self.backup_proposal_round # round
    THEN [panic |-> FALSE, self |-> self, ret |-> None]
    ELSE IF self.backup_proposal # None
    THEN [panic |-> FALSE,
          self |-> [self EXCEPT !.backup_proposal = None,
                                !.backup_proposal_round = 0],
          ret |-> Some(self.backup_proposal[1].block)]
    ELSE [panic |-> FALSE, self |-> self, ret |-> None]

take_backup_proposal(self, round) ==
    IF self.backup_proposal_round # round
    THEN [panic |-> FALSE, self |-> self, ret |-> None]
    ELSE IF self.backup_proposal # None
    THEN [panic |-> FALSE, self |-> [self EXCEPT !.backup_proposal = None],
          ret |-> Some(self.backup_proposal[1].block)]
    ELSE [panic |-> FALSE, self |-> self, ret |-> None]

-----------------------------------------------------------------------------
(* The state machine *)

\* repeat: the call is a take_backup_proposal that follows a
\* take_backup_proposal of the same round that returned a block.
NoCall == [op |-> "none", block |-> None, round |-> 0, author |-> None,
           props |-> <<>>, repeat |-> FALSE]

Fresh ==
    /\ status = "init"
    /\ proposers = <<>>
    /\ num_proposers_per_round = 0
    /\ backup_proposal_round = 0
    /\ backup_proposal = None
    /\ requested = 0
    /\ call = NoCall
    /\ ret = None
    /\ run = None
    /\ seen_round = 0

Init == hashFn \in HashFns /\ Fresh

\* The instance and the status after a call that returned out (o is out,
\* evaluated once).
Becomes(out) ==
    \E o \in {out} :
        /\ status' = IF o.panic THEN "panicked" ELSE "ready"
        /\ proposers' = o.self.proposers
        /\ num_proposers_per_round' = o.self.num_proposers_per_round
        /\ backup_proposal_round' = o.self.backup_proposal_round
        /\ backup_proposal' = o.self.backup_proposal
        /\ ret' = o.ret

New(props, num) ==
    /\ status = "init"
    /\ LET out == new(props, num)
       IN IF out.panic
          THEN /\ status' = "panicked"
               /\ UNCHANGED <<proposers, num_proposers_per_round,
                              backup_proposal_round, backup_proposal, ret>>
          ELSE Becomes([panic |-> FALSE, self |-> out.self, ret |-> None])
    /\ requested' = num
    /\ call' = [NoCall EXCEPT !.op = "new", !.props = props]
    /\ run' = None
    /\ UNCHANGED <<hashFn, seen_round>>

\* The rank of the proposal if it is a backup-rank one for its round.
backup_rank(self, proposal) ==
    IF proposal.author = None THEN None
    ELSE LET r == rank_of(get_candidates(self, proposal.round).val, proposal.author[1])
         IN IF r # None /\ r[1] > 0 THEN r ELSE None

OptMin(a, b) ==
    IF a = None THEN b ELSE IF b = None THEN a ELSE Some(Min(a[1], b[1]))

\* The run of process_proposal calls of one round that this call starts or
\* continues: the least backup rank among its proposals (min), and what was
\* retained when the run started (how the retained round compared with the
\* run's round, and the rank if the slot was full); taken is the rank of the
\* block that a take_backup_proposal of the run's round returned right before
\* the run.
NextRun(proposal, r) ==
    LET continues == call.op = "process_proposal" /\ call.round = proposal.round
    IN IF continues
       THEN Some([run[1] EXCEPT !.min = OptMin(run[1].min, r)])
       ELSE Some([min |-> r,
                  start_round |-> IF backup_proposal_round < proposal.round
                                  THEN "lower"
                                  ELSE IF backup_proposal_round = proposal.round
                                  THEN "same" ELSE "higher",
                  start_rank |-> IF backup_proposal # None
                                 THEN Some(backup_proposal[1].rank) ELSE None,
                  taken |-> IF /\ call.op = "take_backup_proposal"
                               /\ call.round = proposal.round
                               /\ ret # None
                            THEN backup_rank(Self, ret[1]) ELSE None])

ProcessProposal(proposal) ==
    /\ status = "ready"
    /\ Becomes(process_proposal(Self, proposal))
    /\ \E r \in {backup_rank(Self, proposal)} :
          /\ run' = NextRun(proposal, r)
          /\ seen_round' = IF r # None /\ proposal.round > seen_round
                           THEN proposal.round ELSE seen_round
    /\ call' = [NoCall EXCEPT !.op = "process_proposal", !.block = Some(proposal),
                              !.round = proposal.round]
    /\ UNCHANGED <<hashFn, requested>>

TakeBackupProposal(round) ==
    /\ status = "ready"
    /\ Becomes(take_backup_proposal(Self, round))
    /\ call' = [NoCall EXCEPT !.op = "take_backup_proposal", !.round = round,
                              !.repeat = /\ call.op = "take_backup_proposal"
                                         /\ call.round = round
                                         /\ ret # None]
    /\ run' = None
    /\ UNCHANGED <<hashFn, requested, seen_round>>

GetValidProposers(round) ==
    /\ status = "ready"
    /\ Becomes(get_valid_proposers(Self, round))
    /\ call' = [NoCall EXCEPT !.op = "get_valid_proposers", !.round = round]
    /\ run' = None
    /\ UNCHANGED <<hashFn, requested, seen_round>>

IsValidProposer(author, round) ==
    /\ status = "ready"
    /\ Becomes(is_valid_proposer(Self, author, round))
    /\ call' = [NoCall EXCEPT !.op = "is_valid_proposer", !.round = round,
                              !.author = Some(author)]
    /\ run' = None
    /\ UNCHANGED <<hashFn, requested, seen_round>>

\* A requested count above the number of proposers is stored as that number,
\* which SpecSel covers for every list and count: the state machine is driven
\* with such a count for the empty list only, which no other count constructs.
Next ==
    \/ \E props \in DistinctLists :
          \E num \in 0..(IF props = <<>> THEN 1 ELSE Len(props)) : New(props, num)
    \/ \E proposal \in Block : ProcessProposal(proposal)
    \/ \E round \in Round : TakeBackupProposal(round)
    \/ \E round \in Round : GetValidProposers(round)
    \/ \E author \in Author, round \in Round : IsValidProposer(author, round)

Spec == Init /\ [][Next]_vars

\* The selection alone, for every hash function of the bounded domain.
InitSel == hashFn \in AllHashFns /\ Fresh

NextSel ==
    \/ \E props \in ProposerLists, num \in Requested : New(props, num)
    \/ \E round \in Round : GetValidProposers(round)
    \/ \E author \in Author, round \in Round : IsValidProposer(author, round)

SpecSel == InitSel /\ [][NextSel]_vars

TypeOK ==
    /\ hashFn \in AllHashFns
    /\ status \in {"init", "ready", "panicked"}
    /\ backup_proposal_round \in Round
    /\ backup_proposal \in {None} \cup
           {Some(b) : b \in [rank : 0..NumAuthors, block : Block]}
    /\ call.op = "process_proposal" <=> run # None

-----------------------------------------------------------------------------
(* Properties *)

\* The last call was a process_proposal whose run started with a retained
\* round not above the run's round, and the run holds a backup-rank proposal.
RunWithBackup ==
    /\ call.op = "process_proposal"
    /\ run[1].start_round # "higher"
    /\ run[1].min # None

\* The least of the run's backup ranks and of the rank that was retained for
\* the run's round when the run started.
RunBest ==
    OptMin(run[1].min,
           IF run[1].start_round = "same" THEN run[1].start_rank ELSE None)

\* The proposal's author is the rank-0 candidate of the proposal's round.
IsPrimary(self, proposal) ==
    /\ proposal.author # None
    /\ LET l == get_valid_proposers(self, proposal.round).ret
       IN Len(l) > 0 /\ l[1] = proposal.author[1]

\* C1, as claimed: after a run of process_proposal calls of one round R (R not
\* below the retained round at the start of the run), the retained backup has
\* the least rank among the backup-rank proposals of the run.
C1_RunKeepsItsMinimum ==
    RunWithBackup =>
        /\ backup_proposal # None
        /\ backup_proposal_round = call.round
        /\ Some(backup_proposal[1].rank) = run[1].min

\* C1, amended: after such a run the retained backup has the least rank among
\* the backup-rank proposals of the run and the backup that was already
\* retained for R when the run started; take_backup_proposal(R) right after
\* the run returns a proposal of that rank.
C1_RunKeepsMinimumWithStart ==
    [][/\ RunWithBackup' =>
            /\ backup_proposal' # None
            /\ backup_proposal_round' = call'.round
            /\ Some(backup_proposal'[1].rank) = RunBest'
       /\ (RunWithBackup /\ call'.op = "take_backup_proposal"
                         /\ call'.round = call.round) =>
            /\ ret' # None
            /\ ret'[1].round = call.round
            /\ backup_rank(Self, ret'[1]) = RunBest]_vars

\* C1 witness: the run started with nothing retained for its round, its last
\* proposal has a worse rank than an earlier one, and the earlier one is kept.
C1_Witness ==
    /\ RunWithBackup
    /\ run[1].start_round = "lower"
    /\ backup_proposal # None
    /\ backup_rank(Self, call.block[1]) # None
    /\ backup_rank(Self, call.block[1])[1] > backup_proposal[1].rank
    /\ run[1].min = Some(backup_proposal[1].rank)

\* C2: a backup-rank proposal of a round above the retained one replaces the
\* retained backup and the retained round whatever the ranks, and, once it is
\* retained, take_backup_proposal returns nothing for another round and the
\* proposal for its round.
C2_NewerRoundSupersedes ==
    [][/\ (/\ call'.op = "process_proposal"
           /\ backup_rank(Self, call'.block[1]) # None
           /\ call'.round > backup_proposal_round) =>
            /\ backup_proposal' =
                   Some([rank |-> backup_rank(Self, call'.block[1])[1],
                         block |-> call'.block[1]])
            /\ backup_proposal_round' = call'.round
            /\ ret' = None
       /\ (/\ call.op = "process_proposal"
           /\ run[1].start_round = "lower"
           /\ backup_proposal # None
           /\ backup_proposal[1].block = call.block[1]
           /\ call'.op = "take_backup_proposal") =>
            ret' = IF call'.round = call.round THEN call.block ELSE None]_vars

\* C2 witness: a rank-1 backup of a lower round was retained when the run
\* started, and the rank-2 proposal of the last call is retained now.
C2_Witness ==
    /\ call.op = "process_proposal"
    /\ run[1].start_round = "lower"
    /\ run[1].start_rank = Some(1)
    /\ run[1].min = Some(2)
    /\ backup_proposal = Some([rank |-> 2, block |-> call.block[1]])
    /\ backup_proposal_round = call.round

\* C3: process_proposal of a block of the rank-0 candidate of its round
\* returns the block and changes neither the retained round nor the backup.
C3_PrimaryPath ==
    [][(call'.op = "process_proposal" /\ IsPrimary(Self, call'.block[1])) =>
            /\ ret' = call'.block
            /\ backup_proposal_round' = backup_proposal_round
            /\ backup_proposal' = backup_proposal]_vars

\* C3 witness: a primary proposal of a round above the retained one was
\* returned and the backup of the lower round is still retained.
C3_Witness ==
    /\ call.op = "process_proposal"
    /\ IsPrimary(Self, call.block[1])
    /\ ret = call.block
    /\ backup_proposal # None
    /\ call.round > backup_proposal_round

\* C4, as claimed: new() with an empty proposer list fails, whatever the
\* requested count.
C4_EmptyListIsFatal ==
    (call.op = "new" /\ call.props = <<>>) => status = "panicked"

\* C5: new() fails for a requested count of 0; a count above the number of
\* proposers is stored as that number; any other count is stored as it is;
\* a constructed instance starts with retained round 0 and no backup.
C5_Construction ==
    call.op = "new" =>
        /\ requested = 0 => status = "panicked"
        /\ requested > Len(call.props) =>
              status = "ready" /\ num_proposers_per_round = Len(call.props)
        /\ (requested > 0 /\ requested <= Len(call.props)) =>
              status = "ready" /\ num_proposers_per_round = requested
        /\ status = "ready" =>
              /\ proposers = call.props
              /\ backup_proposal_round = 0
              /\ backup_proposal = None

\* C5 witness: an instance constructed with a count above the number of its
\* proposers.
C5_Witness ==
    /\ call.op = "new"
    /\ status = "ready"
    /\ Len(proposers) >= 2
    /\ requested > Len(proposers)
    /\ num_proposers_per_round = Len(proposers)

\* C6: for a proposer list without duplicates, get_valid_proposers returns a
\* list without duplicates whose length is the lesser of the requested count
\* and the number of proposers.
C6_DistinctCandidates ==
    (call.op = "get_valid_proposers" /\ NoDuplicates(proposers)) =>
        /\ status = "ready"
        /\ Len(ret) = Min(requested, Len(proposers))
        /\ NoDuplicates(ret)

\* C6 witness: a list of three distinct candidates, in another order than the
\* configured one, returned for a requested count above the number of proposers.
C6_Witness ==
    /\ call.op = "get_valid_proposers"
    /\ NoDuplicates(proposers)
    /\ requested > Len(proposers)
    /\ Len(ret) = 3
    /\ ret # proposers

\* C7: get_valid_proposers depends on the proposer list, the count and the
\* round only: whatever calls the instance has received, it returns for every
\* round the list that a freshly constructed instance of the same
\* configuration returns.
C7_SelectionIgnoresState ==
    status = "ready" =>
        LET fresh == new(proposers, requested).self
        IN /\ \A round \in Round :
                 get_valid_proposers(Self, round).ret =
                     get_valid_proposers(fresh, round).ret
           /\ call.op = "get_valid_proposers" =>
                 ret = get_valid_proposers(fresh, call.round).ret

\* C7 witness: get_valid_proposers answered on an instance that retains a
\* backup of a round above 0.
C7_Witness ==
    /\ call.op = "get_valid_proposers"
    /\ Len(ret) >= 2
    /\ backup_proposal # None
    /\ backup_proposal_round > 0

\* The proposal has no author among the candidates of its round.
Unauthorized(self, proposal) ==
    \/ proposal.author = None
    \/ ~Contains(get_valid_proposers(self, proposal.round).ret, proposal.author[1])

\* C8: process_proposal of a proposal whose author is no candidate of its
\* round returns nothing and leaves the retained round and backup as they
\* are; no such proposal is ever retained, nor returned by process_proposal or
\* take_backup_proposal.
C8_UnauthorizedRejected ==
    [][/\ (call'.op = "process_proposal" /\ Unauthorized(Self, call'.block[1])) =>
            /\ ret' = None
            /\ backup_proposal_round' = backup_proposal_round
            /\ backup_proposal' = backup_proposal
       /\ (call'.op \in {"process_proposal", "take_backup_proposal"}
              /\ ret' # None) => ~Unauthorized(Self, ret'[1])
       /\ backup_proposal' # None =>
              ~Unauthorized(Self, backup_proposal'[1].block)]_vars

\* C8 witness: a proposal of an author that is no candidate of the retained
\* round was processed, and the backup of that round is still retained.
C8_Witness ==
    /\ call.op = "process_proposal"
    /\ call.block[1].author # None
    /\ Unauthorized(Self, call.block[1])
    /\ ret = None
    /\ backup_proposal # None
    /\ backup_proposal_round = call.round

\* C9: a take_backup_proposal that follows a take_backup_proposal of the same
\* round that returned a block returns nothing, and the retained round is
\* still that round.
C9_SingleConsumption ==
    (call.op = "take_backup_proposal" /\ call.repeat) =>
        /\ ret = None
        /\ backup_proposal = None
        /\ backup_proposal_round = call.round

\* C9 witness: the second of two takes of one round, the first of which
\* returned a block.
C9_Witness ==
    /\ call.op = "take_backup_proposal"
    /\ call.repeat
    /\ ret = None

\* C10: take_backup_proposal of a round other than the retained one returns
\* nothing and changes nothing; of the retained round it returns the retained
\* block if there is one, empties the slot and keeps the retained round.
C10_TakeFrame ==
    [][call'.op = "take_backup_proposal" =>
          IF call'.round # backup_proposal_round
          THEN /\ ret' = None
               /\ backup_proposal' = backup_proposal
               /\ backup_proposal_round' = backup_proposal_round
          ELSE /\ ret' = IF backup_proposal = None THEN None
                         ELSE Some(backup_proposal[1].block)
               /\ backup_proposal' = None
               /\ backup_proposal_round' = backup_proposal_round]_vars

\* C10 witness: a take of another round than the retained one returned
\* nothing and the backup is still retained.
C10_Witness ==
    /\ call.op = "take_backup_proposal"
    /\ call.round # backup_proposal_round
    /\ ret = None
    /\ backup_proposal # None

\* C11: process_proposal of a backup-rank proposal of a round below the
\* retained one returns nothing, changes neither the retained round nor the
\* backup, and raises no error.
C11_StaleRoundDiscarded ==
    [][(/\ call'.op = "process_proposal"
        /\ backup_rank(Self, call'.block[1]) # None
        /\ call'.round < backup_proposal_round) =>
            /\ ret' = None
            /\ status' = "ready"
            /\ backup_proposal_round' = backup_proposal_round
            /\ backup_proposal' = backup_proposal]_vars

\* C11 witness: a backup-rank proposal of a round below the retained one was
\* processed and the backup of the higher round is still retained.
C11_Witness ==
    /\ call.op = "process_proposal"
    /\ run[1].start_round = "higher"
    /\ backup_rank(Self, call.block[1]) # None
    /\ ret = None
    /\ backup_proposal # None
    /\ backup_proposal_round > call.round

\* C12: process_proposal returns the proposal exactly if the proposal has an
\* author and the author is the rank-0 candidate of the proposal's round, and
\* nothing in every other case; a proposal without author changes no state.
C12_ReturnsPrimaryOnly ==
    [][call'.op = "process_proposal" =>
          /\ ret' = IF IsPrimary(Self, call'.block[1]) THEN call'.block ELSE None
          /\ call'.block[1].author = None =>
                /\ backup_proposal_round' = backup_proposal_round
                /\ backup_proposal' = backup_proposal]_vars

\* C12 witness: a proposal without author of a round above the retained one
\* returned nothing and the backup is still retained.
C12_Witness ==
    /\ call.op = "process_proposal"
    /\ call.block[1].author = None
    /\ ret = None
    /\ backup_proposal # None
    /\ call.round > backup_proposal_round

\* C13: is_valid_proposer returns the author exactly if the author is at some
\* rank of get_valid_proposers of the round, nothing otherwise, and changes
\* neither the retained round nor the backup.
C13_EligibleAtAnyRank ==
    [][call'.op = "is_valid_proposer" =>
          /\ ret' = IF Contains(get_valid_proposers(Self, call'.round).ret,
                                call'.author[1])
                    THEN call'.author ELSE None
          /\ backup_proposal_round' = backup_proposal_round
          /\ backup_proposal' = backup_proposal]_vars

\* C13 witness: is_valid_proposer echoed an author of a backup rank on an
\* instance that retains a backup.
C13_Witness ==
    /\ call.op = "is_valid_proposer"
    /\ ret = call.author
    /\ rank_of(get_valid_proposers(Self, call.round).ret, call.author[1]) = Some(2)
    /\ backup_proposal # None

\* C14: a backup-rank proposal of the retained round, while a backup is
\* retained, replaces the backup only if its rank is strictly lower; on a tie
\* of ranks the retained backup stays.
C14_FirstSeenWinsTies ==
    [][(/\ call'.op = "process_proposal"
        /\ backup_rank(Self, call'.block[1]) # None
        /\ call'.round = backup_proposal_round
        /\ backup_proposal # None) =>
            /\ backup_proposal' =
                  IF backup_rank(Self, call'.block[1])[1] < backup_proposal[1].rank
                  THEN Some([rank |-> backup_rank(Self, call'.block[1])[1],
                             block |-> call'.block[1]])
                  ELSE backup_proposal
            /\ backup_proposal_round' = backup_proposal_round]_vars

\* C14 witness: another block of the retained rank and round was processed
\* and the block that came first is still the retained one.
C14_Witness ==
    /\ call.op = "process_proposal"
    /\ backup_proposal # None
    /\ backup_proposal_round = call.round
    /\ backup_rank(Self, call.block[1]) = Some(backup_proposal[1].rank)
    /\ backup_proposal[1].block # call.block[1]

\* The chain value of rank r (ranks from 1): the hash applied r times to the
\* round.
RECURSIVE ReferenceChain(_, _)
ReferenceChain(round, r) ==
    IF r = 0 THEN round ELSE hash(ReferenceChain(round, r - 1))

\* The pool of the reference selection after r ranks were chosen: the chosen
\* position is overwritten with the pool's last element and the pool shrinks
\* by one.
RECURSIVE ReferencePool(_, _, _)
ReferencePool(props, round, r) ==
    IF r = 0 THEN props
    ELSE LET pool == ReferencePool(props, round, r - 1)
             index == ReferenceChain(round, r) % Len(pool)
         IN SubSeq([pool EXCEPT ![index + 1] = pool[Len(pool)]], 1, Len(pool) - 1)

ReferenceSelection(props, k, round) ==
    [r \in 1..k |->
        LET pool == ReferencePool(props, round, r - 1)
        IN pool[(ReferenceChain(round, r) % Len(pool)) + 1]]

\* The same selection with a removal that keeps the order of the pool.
RECURSIVE ShiftPool(_, _, _)
ShiftPool(props, round, r) ==
    IF r = 0 THEN props
    ELSE LET pool == ShiftPool(props, round, r - 1)
             index == ReferenceChain(round, r) % Len(pool)
         IN SubSeq(pool, 1, index) \o SubSeq(pool, index + 2, Len(pool))

ShiftSelection(props, k, round) ==
    [r \in 1..k |->
        LET pool == ShiftPool(props, round, r - 1)
        IN pool[(ReferenceChain(round, r) % Len(pool)) + 1]]

\* C15: the list of get_candidates is the reference selection: h = hash(h),
\* index = h mod |pool|, emit pool[index], overwrite pool[index] with the last
\* element and shrink the pool, for every hash function, proposer list, count
\* and round of the bounded domain.
C15_SwapWithLastSelection ==
    call.op = "get_valid_proposers" =>
        /\ status = "ready"
        /\ ret = ReferenceSelection(proposers, num_proposers_per_round, call.round)

\* C15 witness: a returned list that the selection with an order-preserving
\* removal does not produce.
C15_Witness ==
    /\ call.op = "get_valid_proposers"
    /\ ret = ReferenceSelection(proposers, num_proposers_per_round, call.round)
    /\ ret # ShiftSelection(proposers, num_proposers_per_round, call.round)

\* C16: once the instance is constructed no call fails: the only panic is
\* that of new(), and for every round the pool of the selection loop is not
\* empty when the index is taken.
C16_NoFailureAfterConstruction ==
    /\ status = "panicked" => call.op = "new"
    /\ status = "ready" => \A round \in Round : ~get_candidates(Self, round).panic

\* C16 witness: a selection answered that drained the pool down to its last
\* element (as many candidates as proposers).
C16_Witness ==
    /\ status = "ready"
    /\ call.op = "get_valid_proposers"
    /\ Len(proposers) >= 3
    /\ Len(ret) = Len(proposers)

\* C17: a retained backup (rank, block) is of the retained round, its rank is
\* at least 1 and below num_proposers_per_round, and its author is the
\* candidate of that rank for the retained round; with one proposer per round
\* nothing is ever retained and take_backup_proposal returns nothing.
C17_RetainedBackupWellFormed ==
    /\ backup_proposal # None =>
          /\ backup_proposal[1].block.round = backup_proposal_round
          /\ 1 <= backup_proposal[1].rank
          /\ backup_proposal[1].rank < num_proposers_per_round
          /\ backup_proposal[1].block.author =
                Some(get_valid_proposers(Self, backup_proposal_round)
                         .ret[backup_proposal[1].rank + 1])
    /\ (status = "ready" /\ num_proposers_per_round = 1) =>
          /\ backup_proposal = None
          /\ call.op = "take_backup_proposal" => ret = None

\* C17 witness: a backup of rank 2 retained for a round above 0.
C17_Witness ==
    /\ backup_proposal # None
    /\ backup_proposal[1].rank = 2
    /\ backup_proposal_round > 0

\* C18: the retained round never decreases and is the highest round of the
\* backup-rank proposals processed so far (0 if none); only a backup-rank
\* proposal changes it, and a primary proposal changes the backup neither.
C18_RetainedRoundIsHighestSeen ==
    [][/\ backup_proposal_round' >= backup_proposal_round
       /\ backup_proposal_round' = seen_round'
       /\ (\/ call'.op # "process_proposal"
           \/ backup_rank(Self, call'.block[1]) = None) =>
              backup_proposal_round' = backup_proposal_round
       /\ (call'.op = "process_proposal" /\ IsPrimary(Self, call'.block[1])) =>
              backup_proposal' = backup_proposal]_vars

\* C18 witness: after a take that returned the backup of a round above 0 the
\* retained round is still the highest round seen.
C18_Witness ==
    /\ call.op = "take_backup_proposal"
    /\ ret # None
    /\ seen_round > 0
    /\ backup_proposal_round = seen_round

\* C19: a take_backup_proposal that returns a block empties the slot and
\* keeps the retained round; a backup-rank proposal of the retained round that
\* finds the slot empty (after a take, or on a fresh instance for round 0) is
\* retained whatever its rank, and a take_backup_proposal of that round right
\* after it returns it.
C19_EmptySlotTakesAnyRank ==
    [][/\ (call'.op = "take_backup_proposal" /\ ret' # None) =>
            /\ backup_proposal' = None
            /\ backup_proposal_round' = call'.round
       /\ (/\ call'.op = "process_proposal"
           /\ backup_rank(Self, call'.block[1]) # None
           /\ call'.round = backup_proposal_round
           /\ backup_proposal = None) =>
            /\ backup_proposal' =
                   Some([rank |-> backup_rank(Self, call'.block[1])[1],
                         block |-> call'.block[1]])
            /\ backup_proposal_round' = backup_proposal_round
       /\ (/\ call.op = "process_proposal"
           /\ run[1].start_round = "same"
           /\ run[1].start_rank = None
           /\ backup_proposal # None
           /\ backup_proposal[1].block = call.block[1]
           /\ call'.op = "take_backup_proposal"
           /\ call'.round = call.round) => ret' = call.block]_vars

\* C19 witness: the block of rank 1 of a round above 0 was taken, and the
\* proposal of rank 2 of that round that came next is retained.
C19_Witness ==
    /\ call.op = "process_proposal"
    /\ call.round > 0
    /\ run[1].start_round = "same"
    /\ run[1].start_rank = None
    /\ run[1].taken = Some(1)
    /\ backup_proposal = Some([rank |-> 2, block |-> call.block[1]])
    /\ backup_proposal_round = call.round

\* How often x is in s.
Count(s, x) == Cardinality({i \in 1..Len(s) : s[i] = x})

IsPermutation(s, t) ==
    /\ Len(s) = Len(t)
    /\ \A a \in Author : Count(s, a) = Count(t, a)

\* C20: every author of get_valid_proposers is in the configured list; with
\* as many proposers per round as configured proposers the list is a
\* permutation of the configured one, and is_valid_proposer accepts every
\* configured proposer in every round.
C20_CandidatesAreConfigured ==
    /\ call.op = "get_valid_proposers" =>
          /\ \A i \in 1..Len(ret) : Contains(proposers, ret[i])
          /\ num_proposers_per_round = Len(proposers) =>
                IsPermutation(ret, proposers)
    /\ (/\ call.op = "is_valid_proposer"
        /\ num_proposers_per_round = Len(proposers)
        /\ Contains(proposers, call.author[1])) => ret = call.author

\* C20 witness: with three proposers and three per round, a returned list
\* that is a permutation of the configured list and not the list itself.
C20_Witness ==
    /\ call.op = "get_valid_proposers"
    /\ num_proposers_per_round = Len(proposers)
    /\ Len(proposers) = 3
    /\ IsPermutation(ret, proposers)
    /\ ret # proposers

====
